---- MODULE Spec2Model ----
(***************************************************************************)
(* Model of benchmark_function.py: the shape validator check(), the nine   *)
(* benchmark functions of class BenchmarkFunction and its two metadata     *)
(* accessors, driven by one caller that holds an input array, calls one    *)
(* operation at a time, may write into a returned table, and releases the  *)
(* returned value.                                                         *)
(*                                                                         *)
(* Numbers.  numpy computes on float64.  Here a real number r is the       *)
(* integer r * SCALE (fixed point, two decimal digits), products and       *)
(* quotients are truncated towards zero, and exp / log / cos / sin are     *)
(* evaluated by range reduction and a truncated series at that resolution. *)
(* The points where float64 is exact (cos of a whole number of half turns, *)
(* exp(0), exp(1) = e, x**0, x**1, 0**p, 1**p, sqrt of a square) are exact *)
(* here too; float64 rounding itself is not modelled.                      *)
(*                                                                         *)
(* Arrays.  An ndarray is [shape |-> <<..>>, data |-> <<..>>], the data in *)
(* row-major order as numpy stores it.  Inputs are rectangular arrays of   *)
(* rank 0 to 3 holding integers; batches have at least one column.         *)
(***************************************************************************)
EXTENDS Integers, Sequences, FiniteSets, TLC

\* ------------------------------------------------------------- bounds
MaxRows == 2
MaxCols == 4
MaxSize == 4
MaxVal == 1
MaxDim == 3
NegDims == 2

\* ------------------------------------------------- fixed-point numbers
SCALE == 100
PI_FX == 314
E_FX == 272

Abs(a) == IF a < 0 THEN 0 - a ELSE a

Sgn(a) == IF a < 0 THEN 0 - 1 ELSE 1

\* n/d as a number, e.g. Dec(3, 10) is 0.3
Dec(n, d) == (n * SCALE) \div d

\* a whole number as a number
Whole(n) == n * SCALE

\* a * b, truncated towards zero; split so that the product stays in range
Mul(a, b) ==
    LET x == Abs(a)
        y == Abs(b)
        p == (x \div SCALE) * y + ((x % SCALE) * y) \div SCALE
    IN  Sgn(a) * Sgn(b) * p

\* a / n for a whole n > 0, truncated towards zero
DivInt(a, n) == Sgn(a) * (Abs(a) \div n)

Sq(a) == Mul(a, a)

RECURSIVE BisectSqrt(_, _, _)
\* largest r in lo..hi with r * r <= v, given lo * lo <= v
BisectSqrt(v, lo, hi) ==
    IF lo >= hi THEN lo
    ELSE LET mid == (lo + hi + 1) \div 2
         IN  IF mid <= v \div mid THEN BisectSqrt(v, mid, hi)
             ELSE BisectSqrt(v, lo, mid - 1)

\* sqrt(a) for a >= 0
Sqrt(a) == IF a <= 0 THEN 0 ELSE BisectSqrt(a * SCALE, 1, a * SCALE)

RECURSIVE Series(_, _, _, _, _)
\* sum of the terms t, t*f/k, t*f*f/(k(k+1)), ... up to index last
Series(f, t, k, last, acc) ==
    IF k > last THEN acc
    ELSE LET nt == DivInt(Mul(t, f), k)
         IN  Series(f, nt, k + 1, last, acc + nt)

ExpTerms == 8

RECURSIVE ExpK(_, _)
\* v * e^k for a whole k
ExpK(k, v) ==
    IF k = 0 THEN v
    ELSE IF k > 0 THEN ExpK(k - 1, Mul(v, E_FX))
    ELSE ExpK(k + 1, (v * SCALE) \div E_FX)

\* exp(a): e^floor(a) * series(frac(a))
Exp(a) ==
    LET k == a \div SCALE
        f == a % SCALE
    IN  ExpK(k, Series(f, SCALE, 1, ExpTerms, SCALE))

LnRange == 10

RECURSIVE BisectLn(_, _, _)
\* largest y in lo..hi with Exp(y) <= x
BisectLn(x, lo, hi) ==
    IF lo >= hi THEN lo
    ELSE LET mid == (lo + hi + 1) \div 2
         IN  IF Exp(mid) <= x THEN BisectLn(x, mid, hi)
             ELSE BisectLn(x, lo, mid - 1)

\* log(x) for x > 0
Ln(x) == BisectLn(x, 0 - LnRange * SCALE, LnRange * SCALE)

\* x ** p for x >= 0, p >= 0
Pow(x, p) ==
    IF p = 0 THEN SCALE
    ELSE IF x = 0 THEN 0
    ELSE IF p = SCALE THEN x
    ELSE IF x = SCALE THEN SCALE
    ELSE IF p = Dec(1, 2) THEN Sqrt(x)
    ELSE Exp(Mul(p, Ln(x)))

RECURSIVE CosSeries(_, _, _, _, _)
\* 1 - y^2/2! + y^4/4! - ... for 0 <= y <= pi/2
CosSeries(y2, t, k, last, acc) ==
    IF k > last THEN acc
    ELSE LET nt == 0 - DivInt(Mul(t, y2), k * (k - 1))
         IN  CosSeries(y2, nt, k + 2, last, acc + nt)

CosTerms == 10

CosReduced(y) == CosSeries(Sq(y), SCALE, 2, CosTerms, SCALE)

\* cos(a): reduce modulo 2 pi, fold onto [0, pi/2]
Cos(a) ==
    LET r == a % (2 * PI_FX)
        h == IF r > PI_FX THEN 2 * PI_FX - r ELSE r
    IN  IF 2 * h > PI_FX THEN 0 - CosReduced(PI_FX - h) ELSE CosReduced(h)

Sin(a) == Cos(a - PI_FX \div 2)

\* ------------------------------------------------------------ ndarrays
Max(a, b) == IF a > b THEN a ELSE b

Min(a, b) == IF a < b THEN a ELSE b

Rank(a) == Len(a.shape)

Rows(a) == a.shape[1]

Cols(a) == a.shape[2]

\* a[i, j], 1-based, row-major
At(a, i, j) == a.data[(i - 1) * Cols(a) + j]

\* the (n, m) array whose element (i, j) is F(i, j): the result array every
\* numpy expression of lines 89-152 allocates
Mk(n, m, F(_, _)) ==
    [shape |-> <<n, m>>,
     data |-> [k \in 1..(n * m) |-> F(((k - 1) \div m) + 1, ((k - 1) % m) + 1)]]

\* elementwise F over an array (input_array**2, np.cos(...), lines 89-152)
ArrMap(F(_), a) == [shape |-> a.shape, data |-> [k \in DOMAIN a.data |-> F(a.data[k])]]

\* elementwise F over two (n, *) arrays, a one-column operand broadcast
\* (input_array_1st-input_array_rest**2, line 113, and the sums of slices)
ZipCols(F(_, _), a, b) ==
    LET m == IF Cols(a) = 1 THEN Cols(b) ELSE Cols(a)
    IN  Mk(Rows(a), m,
           LAMBDA i, j : F(At(a, i, IF Cols(a) = 1 THEN 1 ELSE j),
                           At(b, i, IF Cols(b) = 1 THEN 1 ELSE j)))

\* a slice bound k normalised against length m, as Python does
PyBound(k, m) == IF k < 0 THEN Max(k + m, 0) ELSE Min(k, m)

\* a[:, lo:hi] for normalised bounds
SliceCols(a, lo, hi) == Mk(Rows(a), Max(hi - lo, 0), LAMBDA i, j : At(a, i, lo + j))

\* a[:, :k]
ColsTo(a, k) == SliceCols(a, 0, PyBound(k, Cols(a)))

\* a[:, k:]
ColsFrom(a, k) == SliceCols(a, PyBound(k, Cols(a)), Cols(a))

RECURSIVE RowSum(_, _, _)
\* a[i, 1] + ... + a[i, j]
RowSum(a, i, j) == IF j = 0 THEN 0 ELSE RowSum(a, i, j - 1) + At(a, i, j)

RECURSIVE ColSum(_, _, _)
\* a[1, j] + ... + a[i, j]
ColSum(a, i, j) == IF i = 0 THEN 0 ELSE ColSum(a, i - 1, j) + At(a, i, j)

\* a.sum(axis=0): one entry per column
SumAxis0(a) == [j \in 1..Cols(a) |-> ColSum(a, Rows(a), j)]

\* a.sum(axis=1): one entry per row
SumAxis1(a) == [i \in 1..Rows(a) |-> RowSum(a, i, Cols(a))]

\* elementwise F over a 1-D result (lines 135-138, 151)
VecMap(F(_), u) == [i \in DOMAIN u |-> F(u[i])]

VecAdd(u, v) == [i \in DOMAIN u |-> u[i] + v[i]]

\* ------------------------------------------------------------ outcomes
None == [kind |-> "none", val |-> <<>>, exc |-> "", msg |-> ""]

Value(v) == [kind |-> "value", val |-> v, exc |-> "", msg |-> ""]

Raise(e, m) == [kind |-> "raise", val |-> <<>>, exc |-> e, msg |-> m]

ReshapeGuidance ==
    "Only 2D array is expected. Reshape your data either using X.reshape(-1, 1) if your data has a single feature or X.reshape(1, -1) if it contains a single sample."

\* np.array(x): a new array holding x's numbers
Coerce(x) == [shape |-> x.shape, data |-> [k \in DOMAIN x.data |-> Whole(x.data[k])]]

\* check with the test len(x.shape) < 2
checkAnyRankAbove1(x) ==
    IF Len(Coerce(x).shape) < 2 THEN Raise("Exception", ReshapeGuidance)
    ELSE Value(Coerce(x))

\* check(x): the coerced array, or the exception it raises
check(x) ==
    IF Len(Coerce(x).shape) /= 2 THEN Raise("Exception", ReshapeGuidance)
    ELSE Value(Coerce(x))

\* a / b of two Python ints
PyDiv(a, b) ==
    IF b = 0 THEN Raise("ZeroDivisionError", "division by zero")
    ELSE Value(Dec(a, b))

\* ------------------------------------------------ benchmark functions
Sphere(input_array) ==
    LET c == check(input_array)
    IN  IF c.kind = "raise" THEN c
        ELSE Value(SumAxis1(ArrMap(Sq, c.val)))

EllipsoidBody(a, q) ==
    LET dim == Cols(a)
        bad == {i \in 0..(dim - 1) : q[i].kind = "raise"}
    IN  IF bad /= {} THEN q[CHOOSE i \in bad : \A j \in bad : i <= j]
        ELSE LET coef == [j \in 1..dim |-> Pow(Whole(1000), q[j - 1].val)]
                 scaled == Mk(Rows(a), dim, LAMBDA i, j : Mul(At(a, i, j), coef[j]))
             IN  Value(SumAxis1(ArrMap(Sq, scaled)))

\* Ellipsoid with the exponent i / dim
EllipsoidDivByDim(input_array) ==
    LET c == check(input_array)
    IN  IF c.kind = "raise" THEN c
        ELSE EllipsoidBody(c.val, [i \in 0..(Cols(c.val) - 1) |-> PyDiv(i, Cols(c.val))])

Ellipsoid(input_array) ==
    LET c == check(input_array)
    IN  IF c.kind = "raise" THEN c
        ELSE EllipsoidBody(c.val, [i \in 0..(Cols(c.val) - 1) |-> PyDiv(i, Cols(c.val) - 1)])

kTablet(input_array) ==
    LET c == check(input_array)
    IN  IF c.kind = "raise" THEN c
        ELSE LET a == c.val
                 dim == Cols(a)
                 k == (dim + 3) \div 4
             IN  Value(VecAdd(SumAxis1(ArrMap(Sq, ColsTo(a, k))),
                              SumAxis1(ArrMap(LAMBDA v : Sq(100 * v), ColsFrom(a, k)))))

\* RosenbrockStar with a minimum-dimension check
RosenbrockStarGuarded(input_array) ==
    LET c == check(input_array)
    IN  IF c.kind = "raise" THEN c
        ELSE IF Cols(c.val) < 2 THEN Raise("Exception", "at least 2 columns are expected")
        ELSE LET a == c.val
                 input_array_1st == ColsTo(a, 1)
                 input_array_rest == ColsFrom(a, 1)
                 d == ZipCols(LAMBDA f, r : f - r, input_array_1st,
                              ArrMap(Sq, input_array_rest))
                 t1 == ArrMap(LAMBDA v : 100 * Sq(v), d)
                 t2 == ArrMap(LAMBDA r : Sq(Whole(1) - r), input_array_rest)
             IN  Value(SumAxis1(ZipCols(LAMBDA u, v : u + v, t1, t2)))

RosenbrockStar(input_array) ==
    LET c == check(input_array)
    IN  IF c.kind = "raise" THEN c
        ELSE LET a == c.val
                 input_array_1st == ColsTo(a, 1)
                 input_array_rest == ColsFrom(a, 1)
                 d == ZipCols(LAMBDA f, r : f - r, input_array_1st,
                              ArrMap(Sq, input_array_rest))
                 t1 == ArrMap(LAMBDA v : 100 * Sq(v), d)
                 t2 == ArrMap(LAMBDA r : Sq(Whole(1) - r), input_array_rest)
             IN  Value(SumAxis1(ZipCols(LAMBDA u, v : u + v, t1, t2)))

RosenbrockChain(input_array) ==
    LET c == check(input_array)
    IN  IF c.kind = "raise" THEN c
        ELSE LET a == c.val
                 nxt == ColsFrom(a, 1)
                 cur == ColsTo(a, 0 - 1)
                 d == ZipCols(LAMBDA y, x : y - x, nxt, ArrMap(Sq, cur))
                 t1 == ArrMap(LAMBDA v : 100 * Sq(v), d)
                 t2 == ArrMap(LAMBDA x : Sq(Whole(1) - x), cur)
             IN  Value(SumAxis1(ZipCols(LAMBDA u, v : u + v, t1, t2)))

Bohachevsky(input_array) ==
    LET c == check(input_array)
    IN  IF c.kind = "raise" THEN c
        ELSE LET a == c.val
                 cur == ColsTo(a, 0 - 1)
                 nxt == ColsFrom(a, 1)
                 t1 == ArrMap(Sq, cur)
                 t2 == ArrMap(LAMBDA y : 2 * Sq(y), nxt)
                 t3 == ArrMap(LAMBDA x : Mul(Dec(3, 10), Cos(Mul(3 * PI_FX, x))), cur)
                 t4 == ArrMap(LAMBDA y : Mul(Dec(4, 10), Cos(Mul(4 * PI_FX, y))), nxt)
                 s12 == ZipCols(LAMBDA u, v : u + v, t1, t2)
                 s123 == ZipCols(LAMBDA u, v : u - v, s12, t3)
                 s1234 == ZipCols(LAMBDA u, v : u - v, s123, t4)
             IN  Value(SumAxis1(ArrMap(LAMBDA u : u + Dec(7, 10), s1234)))

Ackley(input_array) ==
    LET c == check(input_array)
    IN  IF c.kind = "raise" THEN c
        ELSE LET a == c.val
                 dim == Cols(a)
                 ms == VecMap(LAMBDA s : DivInt(s, dim), SumAxis1(ArrMap(Sq, a)))
                 root == VecMap(LAMBDA s : Pow(s, Dec(1, 2)), ms)
                 e1 == VecMap(LAMBDA r : 20 * Exp(Mul(0 - Dec(2, 10), r)), root)
                 mc == VecMap(LAMBDA s : DivInt(s, dim),
                              SumAxis1(ArrMap(LAMBDA x : Cos(Mul(2 * PI_FX, x)), a)))
                 e2 == VecMap(Exp, mc)
             IN  Value([i \in DOMAIN e1 |-> Whole(20) - e1[i] + E_FX - e2[i]])

Schaffer(input_array) ==
    LET c == check(input_array)
    IN  IF c.kind = "raise" THEN c
        ELSE LET a == c.val
                 s == ZipCols(LAMBDA u, v : u + v, ArrMap(Sq, ColsTo(a, 0 - 1)),
                              ArrMap(Sq, ColsFrom(a, 1)))
                 t == ArrMap(LAMBDA v : Mul(Pow(v, Dec(25, 100)),
                                            Sq(Sin(50 * Pow(v, Dec(1, 10)))) + Whole(1)), s)
             IN  Value(SumAxis1(t))

\* Rastrigin without the shift by one
RastriginUnshifted(input_array) ==
    LET c == check(input_array)
    IN  IF c.kind = "raise" THEN c
        ELSE LET a == c.val
                 dim == Cols(a)
                 t == ArrMap(LAMBDA x : Sq(x) - 10 * Cos(Mul(2 * PI_FX, x)), a)
             IN  Value(VecMap(LAMBDA s : Whole(10 * dim) + s, SumAxis1(t)))

Rastrigin(input_array) ==
    LET c == check(input_array)
    IN  IF c.kind = "raise" THEN c
        ELSE LET a == c.val
                 dim == Cols(a)
                 t == ArrMap(LAMBDA x : Sq(x - Whole(1))
                                        - 10 * Cos(Mul(2 * PI_FX, x - Whole(1))), a)
             IN  Value(VecMap(LAMBDA s : Whole(10 * dim) + s, SumAxis1(t)))

\* the nine evaluation methods of the class
FunctionNames ==
    {"Sphere", "Ellipsoid", "kTablet", "RosenbrockStar", "RosenbrockChain",
     "Bohachevsky", "Ackley", "Schaffer", "Rastrigin"}

\* getattr(BenchmarkFunction(), f)(x)
Apply(f, x) ==
    CASE f = "Sphere" -> Sphere(x)
      [] f = "Ellipsoid" -> Ellipsoid(x)
      [] f = "kTablet" -> kTablet(x)
      [] f = "RosenbrockStar" -> RosenbrockStar(x)
      [] f = "RosenbrockChain" -> RosenbrockChain(x)
      [] f = "Bohachevsky" -> Bohachevsky(x)
      [] f = "Ackley" -> Ackley(x)
      [] f = "Schaffer" -> Schaffer(x)
      [] f = "Rastrigin" -> Rastrigin(x)

\* ------------------------------------------------------------ metadata
\* search_area with one key misspelt and one interval reversed
search_areaSlip ==
    ("Sphere" :> <<0 - 5120, 5120>>) @@
    ("Ellipsoid" :> <<0 - 5120, 5120>>) @@
    ("kTablet" :> <<0 - 5120, 5120>>) @@
    ("Rosenbrockstar" :> <<0 - 2048, 2048>>) @@
    ("RosenbrockChain" :> <<0 - 2048, 2048>>) @@
    ("Bohachevsky" :> <<0 - 5120, 5120>>) @@
    ("Ackley" :> <<0 - 32768, 32768>>) @@
    ("Schaffer" :> <<100000, 0 - 100000>>) @@
    ("Rastrigin" :> <<0 - 5120, 5120>>)

\* the dict literal of search_area(), bounds in thousandths
search_area ==
    ("Sphere" :> <<0 - 5120, 5120>>) @@
    ("Ellipsoid" :> <<0 - 5120, 5120>>) @@
    ("kTablet" :> <<0 - 5120, 5120>>) @@
    ("RosenbrockStar" :> <<0 - 2048, 2048>>) @@
    ("RosenbrockChain" :> <<0 - 2048, 2048>>) @@
    ("Bohachevsky" :> <<0 - 5120, 5120>>) @@
    ("Ackley" :> <<0 - 32768, 32768>>) @@
    ("Schaffer" :> <<0 - 100000, 100000>>) @@
    ("Rastrigin" :> <<0 - 5120, 5120>>)

\* [v] * abs(d)
PyRepeatAbs(v, d) == [i \in 1..Abs(d) |-> v]

\* [v] * d: the empty list when d <= 0
PyRepeat(v, d) == [i \in 1..d |-> v]

\* optimal_solution with Rastrigin's optimum left at the origin
optimal_solutionRastriginZeros(dimension) ==
    [lists |-> <<PyRepeat(0, dimension), PyRepeat(1, dimension)>>,
     table |-> ("Sphere" :> 1) @@
               ("Ellipsoid" :> 1) @@
               ("kTablet" :> 1) @@
               ("RosenbrockStar" :> 2) @@
               ("RosenbrockChain" :> 2) @@
               ("Bohachevsky" :> 1) @@
               ("Ackley" :> 1) @@
               ("Schaffer" :> 1) @@
               ("Rastrigin" :> 1)]

\* optimal_solution(dimension): the two list objects it builds, and the dict
\* literal, whose values are references to the first (zeros) or second (ones)
optimal_solution(dimension) ==
    [lists |-> <<PyRepeat(0, dimension), PyRepeat(1, dimension)>>,
     table |-> ("Sphere" :> 1) @@
               ("Ellipsoid" :> 1) @@
               ("kTablet" :> 1) @@
               ("RosenbrockStar" :> 2) @@
               ("RosenbrockChain" :> 2) @@
               ("Bohachevsky" :> 1) @@
               ("Ackley" :> 1) @@
               ("Schaffer" :> 1) @@
               ("Rastrigin" :> 2)]

\* --------------------------------------------------------------- inputs
Vals == (0 - 1)..MaxVal

RECURSIVE Prod(_)
Prod(s) == IF s = <<>> THEN 1 ELSE Head(s) * Prod(Tail(s))

\* batches: n rows, m >= 1 columns
Shapes2 == {s \in (0..MaxRows) \X (1..MaxCols) : Prod(s) <= MaxSize}

\* scalars, flat sequences, 3D arrays
ShapesOther ==
    {<<>>} \cup {<<k>> : k \in 0..MaxCols}
    \cup {s \in (1..MaxRows) \X (1..MaxRows) \X (1..MaxRows) : Prod(s) <= MaxSize}

ArraysOf(shapes) ==
    UNION {{[shape |-> s, data |-> d] : d \in [1..Prod(s) -> Vals]} : s \in shapes}

Arrays == ArraysOf(Shapes2 \cup ShapesOther)

Dims == (0 - NegDims)..MaxDim

\* ---------------------------------------------------------------- state
VARIABLES
    X,          \* the caller's input array, as the caller holds it
    self,       \* the attributes of the BenchmarkFunction instance
    pc,         \* "idle", "returned" (a call has returned), "mutated"
    op,         \* the method last called
    dimension,  \* the argument of the last optimal_solution call
    ret,        \* what the last call returned or raised
    heap,       \* the list objects reachable from ret, by address
    written     \* the key whose vector the caller wrote into

vars == <<X, self, pc, op, dimension, ret, heap, written>>

\* __init__: the instance has no attributes
Init ==
    /\ X \in Arrays
    /\ self = <<>>
    /\ pc = "idle"
    /\ op = "none"
    /\ dimension = 0
    /\ ret = None
    /\ heap = <<>>
    /\ written = "none"

\* a call of evaluation method f on the caller's array
Eval(f) ==
    /\ pc = "idle"
    /\ pc' = "returned"
    /\ op' = f
    /\ ret' = Apply(f, X)
    /\ UNCHANGED <<X, self, dimension, heap, written>>

CallSphere == Eval("Sphere")

CallEllipsoid == Eval("Ellipsoid")

CallkTablet == Eval("kTablet")

CallRosenbrockStar == Eval("RosenbrockStar")

CallRosenbrockChain == Eval("RosenbrockChain")

CallBohachevsky == Eval("Bohachevsky")

CallAckley == Eval("Ackley")

CallSchaffer == Eval("Schaffer")

\* Rastrigin over the caller's own buffer: input_array -= 1 without the copy
CallRastriginInPlace ==
    /\ pc = "idle"
    /\ pc' = "returned"
    /\ op' = "Rastrigin"
    /\ ret' = Apply("Rastrigin", X)
    /\ X' = [X EXCEPT !.data = [k \in DOMAIN X.data |-> X.data[k] - 1]]
    /\ UNCHANGED <<self, dimension, heap, written>>

CallRastrigin == Eval("Rastrigin")

CallSearchArea ==
    /\ pc = "idle"
    /\ pc' = "returned"
    /\ op' = "search_area"
    /\ ret' = Value(search_area)
    /\ UNCHANGED <<X, self, dimension, heap, written>>

CallOptimalSolution ==
    \E d \in Dims :
        /\ pc = "idle"
        /\ pc' = "returned"
        /\ op' = "optimal_solution"
        /\ dimension' = d
        /\ heap' = optimal_solution(d).lists
        /\ ret' = Value(optimal_solution(d).table)
        /\ UNCHANGED <<X, self, written>>

\* the caller: table[f][i - 1] = v on a table optimal_solution returned
Mutate ==
    \E f \in FunctionNames, v \in Vals :
        /\ pc = "returned"
        /\ op = "optimal_solution"
        /\ \E i \in 1..Len(heap[ret.val[f]]) :
               /\ heap[ret.val[f]][i] /= v
               /\ heap' = [heap EXCEPT ![ret.val[f]][i] = v]
        /\ pc' = "mutated"
        /\ written' = f
        /\ UNCHANGED <<X, self, op, dimension, ret>>

\* the caller drops the returned value; its lists are garbage
Release ==
    /\ pc /= "idle"
    /\ pc' = "idle"
    /\ op' = "none"
    /\ dimension' = 0
    /\ ret' = None
    /\ heap' = <<>>
    /\ written' = "none"
    /\ UNCHANGED <<X, self>>

Next ==
    \/ CallSphere
    \/ CallEllipsoid
    \/ CallkTablet
    \/ CallRosenbrockStar
    \/ CallRosenbrockChain
    \/ CallBohachevsky
    \/ CallAckley
    \/ CallSchaffer
    \/ CallRastrigin
    \/ CallSearchArea
    \/ CallOptimalSolution
    \/ Mutate
    \/ Release

Spec == Init /\ [][Next]_vars

\* ---------------------------------------------------------------- claims
Returned(f) == pc = "returned" /\ op = f

IsBatch(x) == Rank(x) = 2

\* the one-row batch holding row i of x
RowOf(x, i) == [shape |-> <<1, Cols(x)>>, data |-> [j \in 1..Cols(x) |-> At(x, i, j)]]

\* x with rows i and k exchanged
SwapRows(x, i, k) ==
    [shape |-> x.shape,
     data |-> [e \in DOMAIN x.data |->
                  LET r == ((e - 1) \div Cols(x)) + 1
                      c == ((e - 1) % Cols(x)) + 1
                  IN  At(x, IF r = i THEN k ELSE IF r = k THEN i ELSE r, c)]]

SwapEntries(u, i, k) ==
    [e \in DOMAIN u |-> u[IF e = i THEN k ELSE IF e = k THEN i ELSE e]]

\* the names whose documented optimum is (1, ..., 1)
OnesNames == {"RosenbrockStar", "RosenbrockChain", "Rastrigin"}

OptimumValue(f) == IF f \in OnesNames THEN 1 ELSE 0

\* optimal_solution(d)[f], as a fresh table holds it
OptimalVector(f, d) == optimal_solution(d).lists[optimal_solution(d).table[f]]

AllRowsEqual(x, v) == \A i \in 1..Rows(x) : \A j \in 1..Cols(x) : At(x, i, j) = v[j]

\* C1: every evaluation operation on an input whose rank is not 2 raises the
\* exception carrying the reshape guidance and returns no fitness values; on a
\* rank-2 input the validator raises nothing and returns the coerced array.
C1_ShapeValidation ==
    \A f \in FunctionNames :
        Returned(f) =>
            IF Rank(X) /= 2
            THEN ret = Raise("Exception", ReshapeGuidance)
            ELSE /\ check(X).kind = "value"
                 /\ check(X).val.shape = X.shape
                 /\ \A k \in DOMAIN X.data : check(X).val.data[k] = Whole(X.data[k])
                 /\ ~(ret.kind = "raise" /\ ret.exc = "Exception")

C1_Witness == Returned("Schaffer") /\ Rank(X) = 3 /\ ret.kind = "raise"

\* C2: an evaluation that returns values returns one per row, entry i being the
\* function of row i alone, and exchanging two rows of the batch exchanges the
\* two outputs.
C2_RowWise ==
    \A f \in FunctionNames :
        (Returned(f) /\ ret.kind = "value") =>
            /\ DOMAIN ret.val = 1..Rows(X)
            /\ \A i \in 1..Rows(X) : ret.val[i] = Apply(f, RowOf(X, i)).val[1]
            /\ \A i, k \in 1..Rows(X) :
                   Apply(f, SwapRows(X, i, k)).val = SwapEntries(ret.val, i, k)

C2_Witness ==
    /\ Returned("RosenbrockChain")
    /\ X.shape = <<2, 2>>
    /\ ret.kind = "value"
    /\ ret.val[1] /= ret.val[2]

\* C3: on a batch of at least two columns whose rows all equal the optimal
\* solution of the function called, every returned value is 0.
C3_ZeroAtOptimum ==
    \A f \in FunctionNames :
        (Returned(f) /\ IsBatch(X) /\ Cols(X) >= 2
            /\ AllRowsEqual(X, OptimalVector(f, Cols(X)))) =>
            /\ ret.kind = "value"
            /\ \A i \in 1..Rows(X) : ret.val[i] = 0

C3_Witness ==
    /\ Returned("Rastrigin")
    /\ X = [shape |-> <<2, 2>>, data |-> <<1, 1, 1, 1>>]
    /\ ret = Value(<<0, 0>>)

ZeroZero == [shape |-> <<1, 2>>, data |-> <<0, 0>>]

\* C4 as stated: Rastrigin on [[0, 0]] returns 22.
C4_Original == (Returned("Rastrigin") /\ X = ZeroZero) => ret = Value(<<Whole(22)>>)

\* C4 as amended: Rastrigin on [[0, 0]] returns 2, which is
\* 10*2 + 2*((0 - 1)^2 - 10*cos(2*pi*(0 - 1))) = 20 + 2*(1 - 10).
C4_Rastrigin00 == (Returned("Rastrigin") /\ X = ZeroZero) => ret = Value(<<Whole(2)>>)

C4_Witness == Returned("Rastrigin") /\ X = ZeroZero /\ ret.kind = "value"

\* C5: optimal_solution(d) raises nothing for any integer d and maps every
\* function name to a vector of length max(d, 0), all 1 for RosenbrockStar,
\* RosenbrockChain and Rastrigin and all 0 for the other six.
C5_OptimalTable ==
    Returned("optimal_solution") =>
        /\ ret.kind = "value"
        /\ \A f \in FunctionNames :
               /\ Len(heap[ret.val[f]]) = Max(dimension, 0)
               /\ \A i \in 1..Len(heap[ret.val[f]]) :
                      heap[ret.val[f]][i] = OptimumValue(f)

C5_Witness ==
    /\ Returned("optimal_solution")
    /\ dimension < 0
    /\ heap[ret.val["Rastrigin"]] = <<>>

\* C6: the keys of search_area() and of optimal_solution(d) are exactly the nine
\* evaluation operation names, and every search area is a pair low < high.
C6_Keys ==
    /\ Returned("search_area") =>
           /\ DOMAIN ret.val = FunctionNames
           /\ \A f \in DOMAIN ret.val :
                  Len(ret.val[f]) = 2 /\ ret.val[f][1] < ret.val[f][2]
    /\ Returned("optimal_solution") => DOMAIN ret.val = FunctionNames

C6_Witness == Returned("search_area") /\ Cardinality(DOMAIN ret.val) = 9

C8_EllipsoidOneColumn ==
    (Returned("Ellipsoid") /\ IsBatch(X)) =>
        /\ Cols(X) = 1 => ret = Raise("ZeroDivisionError", "division by zero")
        /\ Cols(X) >= 2 => ret.kind = "value"

C8_Witness ==
    /\ Returned("Ellipsoid")
    /\ X.shape = <<0, 1>>
    /\ ret.exc = "ZeroDivisionError"

NeighbourNames == {"RosenbrockStar", "RosenbrockChain", "Bohachevsky", "Schaffer"}

\* C9 as stated: on an (n, 1) batch RosenbrockStar, RosenbrockChain, Bohachevsky
\* and Schaffer do not return a length-n vector of zeros.
C9_Original ==
    \A f \in NeighbourNames :
        (Returned(f) /\ IsBatch(X) /\ Cols(X) = 1) =>
            ~(ret.kind = "value" /\ \A i \in DOMAIN ret.val : ret.val[i] = 0)

\* C9 as amended: on an (n, 1) batch these four raise nothing and return the
\* length-n vector of zeros, each entry an empty sum.
C9_EmptySums ==
    \A f \in NeighbourNames :
        (Returned(f) /\ IsBatch(X) /\ Cols(X) = 1) =>
            ret = Value([i \in 1..Rows(X) |-> 0])

C9_Witness ==
    /\ Returned("Bohachevsky")
    /\ X = [shape |-> <<2, 1>>, data |-> <<1, 0 - 1>>]
    /\ ret = Value(<<0, 0>>)

\* C10: after the caller writes into the vector of one key of a table that
\* optimal_solution returned, the vectors of the other eight keys still hold
\* their all-zeros or all-ones contents.
C10_Independent ==
    pc = "mutated" =>
        \A g \in FunctionNames \ {written} :
            heap[ret.val[g]] = PyRepeat(OptimumValue(g), dimension)
====
